---- MODULE Spec2Model ----
(***************************************************************************)
(* Bearer-token authentication at the request boundary of the NestJS       *)
(* Auth0 demonstration API: bootstrap (main.ts), the Passport JWT strategy *)
(* (jwt.strategy.ts), the guard (jwt-auth.guard.ts), the three message     *)
(* handlers (messages.controller.ts, messages.service.ts) and the global   *)
(* exception filter (http-exception.filter.ts).                            *)
(*                                                                         *)
(* JavaScript strings that the code inspects or concatenates are sequences *)
(* of one-character strings (<<"h", "/">> is 'h/'); texts that are only    *)
(* compared are TLA+ strings.  JavaScript values of several types (the     *)
(* arguments of the Passport callback) are records tagged by "type".       *)
(***************************************************************************)
EXTENDS Integers, Sequences, FiniteSets, TLC

VARIABLES env, boot, app, strategy, now, req

vars == <<env, boot, app, strategy, now, req>>

(***************************************************************************)
(* Bounds of the model.                                                    *)
(***************************************************************************)
\* The clock runs 0..MaxTime; token expirations are drawn from the same range.
MaxTime == 2
\* Number of requests in flight at once.
MaxReq == 2

\* The longest issuer base URL of the start-up specification.
MaxUrlLen == 3

Reqs == 1..MaxReq

(***************************************************************************)
(* JavaScript values.                                                      *)
(***************************************************************************)
\* The value undefined where a string is expected: no string over one-character
\* elements equals it.
UNDEFINED == <<"undefined">>

JsUndefined == [type |-> "undefined"]
JsNull == [type |-> "null"]
JsFalse == [type |-> "boolean", val |-> FALSE]
JsObject(v) == [type |-> "object", val |-> v]

\* JavaScript truthiness of a tagged value (the operand of `!user`).
Truthy(v) == v.type \notin {"undefined", "null"} /\ (v.type = "boolean" => v.val)

\* a ?? b on a string-or-undefined value.
Coalesce(v, d) == IF v = UNDEFINED THEN d ELSE v

\* String.prototype.endsWith for a one-character suffix.
EndsWith(s, c) == Len(s) > 0 /\ s[Len(s)] = c

(***************************************************************************)
(* Configuration (process environment read through ConfigService).         *)
(***************************************************************************)
requiredEnvVars == <<"PORT", "AUTH0_ISSUER_BASE_URL", "AUTH0_AUDIENCE", "CLIENT_ORIGIN_URL">>

EnvNames == {requiredEnvVars[i] : i \in 1..Len(requiredEnvVars)}

\* The values each variable is drawn from: unset, empty, and set.
EnvValues(name) ==
    CASE name = "PORT" -> {UNDEFINED, <<>>, <<"6">>}
      [] name = "AUTH0_ISSUER_BASE_URL" -> {UNDEFINED, <<>>, <<"h">>, <<"h", "/">>}
      [] name = "AUTH0_AUDIENCE" -> {UNDEFINED, <<>>, <<"a">>}
      [] name = "CLIENT_ORIGIN_URL" -> {UNDEFINED, <<>>, <<"o">>}

\* The issuer base URLs of the start-up specification: unset, and every string
\* of host characters and slashes up to MaxUrlLen.
ConfiguredUrls == {UNDEFINED} \cup UNION {[1..n -> {"h", "/"}] : n \in 0..MaxUrlLen}

\* configService.get<string>(key)
ConfigGet(key) == env[key]

(***************************************************************************)
(* JwtStrategy constructor: the options handed to passport-jwt.            *)
(***************************************************************************)
WellKnown == <<".well-known/jwks.json">>

issuerBaseUrl == Coalesce(ConfigGet("AUTH0_ISSUER_BASE_URL"), <<>>)

audience == Coalesce(ConfigGet("AUTH0_AUDIENCE"), <<>>)

\* Variant of jwksUri: the slash is appended whatever the base URL ends with.
JwksUriAlwaysAppendsSlash == issuerBaseUrl \o <<"/">> \o WellKnown

jwksUri ==
    IF EndsWith(issuerBaseUrl, "/")
    THEN issuerBaseUrl \o WellKnown
    ELSE issuerBaseUrl \o <<"/">> \o WellKnown

\* Variant of issuer: the base URL passed on as configured.
IssuerUnnormalised == issuerBaseUrl

\* issuer: issuerBaseUrl.endsWith('/') ? issuerBaseUrl : `${issuerBaseUrl}/`
issuer == IF EndsWith(issuerBaseUrl, "/") THEN issuerBaseUrl ELSE issuerBaseUrl \o <<"/">>

\* Variant of ignoreExpiration: true.
ExpirationIgnored == TRUE

\* ignoreExpiration: false
ignoreExpiration == FALSE

\* Variant of algorithms: a symmetric algorithm allowed as well.
AlgorithmsWithSymmetric == {"RS256", "HS256"}

\* algorithms: ['RS256']
algorithms == {"RS256"}

\* Variant of audienceOption: no audience passed.
AudienceOmitted == <<>>

\* audience (the option of super({...}))
audienceOption == audience

\* super({...})
StrategyOptions ==
    [ jwtFromRequest |-> "fromAuthHeaderAsBearerToken",
      ignoreExpiration |-> ignoreExpiration,
      jwksUri |-> jwksUri,
      audience |-> audienceOption,
      issuer |-> issuer,
      algorithms |-> algorithms ]

NotConstructed == [ jwtFromRequest |-> "none", ignoreExpiration |-> FALSE, jwksUri |-> UNDEFINED,
                    audience |-> UNDEFINED, issuer |-> UNDEFINED, algorithms |-> {} ]

(***************************************************************************)
(* Bearer tokens.  A token is its decoded form: the header's alg and kid,  *)
(* the key material its signature was made with, and the claim set.        *)
(***************************************************************************)
\* payload.exp absent (exp?: number)
NoExp == 0 - 1

\* Key identifiers published at the JWKS endpoint; the key of kid k is named k.
JwksKids == {"k1"}

TokenAlgs == {"RS256", "HS256", "none"}

TokenKids == {"k1", "k9"}

\* What produced the signature: the private key of k1, the public key of k1 used
\* as an HMAC secret, or nothing that verifies.
TokenSigners == {<<"priv", "k1">>, <<"pub", "k1">>, <<"forged", "k1">>}

TokenIssuers == {<<"h">>, <<"h", "/">>, <<"e", "/">>}

\* aud?: string | string[]; an absent claim is the single value undefined.
TokenAudiences ==
    { [isArray |-> FALSE, vals |-> {<<"a">>}],
      [isArray |-> FALSE, vals |-> {<<"b">>}],
      [isArray |-> FALSE, vals |-> {UNDEFINED}],
      [isArray |-> TRUE, vals |-> {<<"a">>, <<"b">>}],
      [isArray |-> TRUE, vals |-> {<<"b">>, <<"c">>}] }

TokenExps == {NoExp} \cup (0..MaxTime)

\* interface JwtPayload
JwtPayload(subs) == [sub : subs, iss : TokenIssuers, aud : TokenAudiences, exp : TokenExps]

MalformedToken ==
    [ malformed |-> TRUE, alg |-> "none", kid |-> "k9", signer |-> <<"forged", "k1">>,
      payload |-> [sub |-> "u1", iss |-> <<"e", "/">>,
                   aud |-> [isArray |-> FALSE, vals |-> {UNDEFINED}], exp |-> NoExp] ]

\* Every token of the model: the malformed one and all well-formed ones.
AllTokens ==
    {MalformedToken} \cup
    [ malformed : {FALSE}, alg : TokenAlgs, kid : TokenKids, signer : TokenSigners,
      payload : JwtPayload({"u1"}) ]

\* A token Auth0 issued for subject s, audience 'a', issuer 'h/', expiring at e.
IssuedToken(s, e) ==
    [ malformed |-> FALSE, alg |-> "RS256", kid |-> "k1", signer |-> <<"priv", "k1">>,
      payload |-> [sub |-> s, iss |-> <<"h", "/">>,
                   aud |-> [isArray |-> FALSE, vals |-> {<<"a">>}], exp |-> e] ]

\* The few tokens of the concurrent specification.
CoreTokens == {IssuedToken("u1", 1), IssuedToken("u2", NoExp)}

\* The Authorization header: absent, or a scheme and a token.
NoHeader == [scheme |-> "none", token |-> MalformedToken]

HeadersOf(schemes, tokens) ==
    {NoHeader} \cup {[scheme |-> c, token |-> t] : c \in schemes, t \in tokens}

\* The headers of each specification.
CoreHeaders == HeadersOf({"Bearer"}, CoreTokens)

AnyHeaders == HeadersOf({"Basic", "Bearer"}, AllTokens)

CarrierHeaders == HeadersOf({"Basic", "Bearer"}, CoreTokens)

\* A token carried by the request outside the Authorization header: in a
\* cookie, in a query parameter or in the body.
NoCarrier == [place |-> "none", token |-> MalformedToken]

CarriersOf(places, tokens) ==
    {NoCarrier} \cup {[place |-> p, token |-> t] : p \in places, t \in tokens}

\* The carriers of each specification.
NoCarriers == {NoCarrier}

AllCarriers == CarriersOf({"body", "cookie", "query"}, CoreTokens)

\* Variant of JwtFromRequest: without a bearer header the token of the query
\* parameter is taken.
JwtFromRequestOrQuery(request) ==
    IF request.auth.scheme = "Bearer"
    THEN [found |-> TRUE, token |-> request.auth.token]
    ELSE IF request.elsewhere.place = "query"
    THEN [found |-> TRUE, token |-> request.elsewhere.token]
    ELSE [found |-> FALSE, token |-> MalformedToken]

\* jwtFromRequest: the token is read from the Authorization header with the
\* Bearer scheme, and from nowhere else in the request.
JwtFromRequest(request) ==
    IF request.auth.scheme = "Bearer"
    THEN [found |-> TRUE, token |-> request.auth.token]
    ELSE [found |-> FALSE, token |-> MalformedToken]

\* The signature of tok verifies under the key resolved for its kid.
SignatureValid(tok) ==
    CASE tok.alg = "RS256" -> tok.signer = <<"priv", tok.kid>>
      [] tok.alg = "HS256" -> tok.signer = <<"pub", tok.kid>>
      [] OTHER -> FALSE

\* The verification outcome of tok under options opts at clock reading t, in the
\* order the checks are made.  The audience and issuer checks are made when the
\* option is set (a non-empty string).
Verify(tok, opts, t) ==
    IF tok.malformed THEN "MalformedToken"
    ELSE IF tok.kid \notin JwksKids THEN "KeyResolutionFailed"
    ELSE IF tok.alg \notin opts.algorithms THEN "InvalidAlgorithm"
    ELSE IF ~SignatureValid(tok) THEN "SignatureInvalid"
    ELSE IF tok.payload.exp # NoExp /\ ~opts.ignoreExpiration /\ t >= tok.payload.exp
         THEN "TokenExpired"
    ELSE IF opts.audience # <<>> /\ opts.audience \notin tok.payload.aud.vals
         THEN "AudienceMismatch"
    ELSE IF opts.issuer # <<>> /\ tok.payload.iss # opts.issuer THEN "IssuerMismatch"
    ELSE "Verified"

FailureReasons ==
    { "NoAuthToken", "MalformedToken", "KeyResolutionFailed", "InvalidAlgorithm",
      "SignatureInvalid", "TokenExpired", "AudienceMismatch", "IssuerMismatch" }

\* Variant of validate: the audience claim is dropped from what it returns.
ValidateDropsClaims(payload) == [payload EXCEPT !.aud = [isArray |-> FALSE, vals |-> {UNDEFINED}]]

\* JwtStrategy.validate
validate(payload) == payload

\* The arguments Passport hands to the guard's callback for a request with
\* header hdr: (err, user, info).
Authenticate(request, opts, t) ==
    LET jwt == JwtFromRequest(request)
        verdict == IF jwt.found THEN Verify(jwt.token, opts, t) ELSE "NoAuthToken"
        user == JsObject(validate(jwt.token.payload))
    IN  IF verdict = "Verified" /\ Truthy(user)
        THEN [err |-> JsNull, user |-> user, info |-> verdict]
        ELSE [err |-> JsNull, user |-> JsFalse, info |-> verdict]

(***************************************************************************)
(* JwtAuthGuard.                                                           *)
(***************************************************************************)
\* new UnauthorizedException(message)
UnauthorizedException(message) == [type |-> "HttpException", status |-> 401, message |-> message]

\* Variant of handleRequest: the failure reason is put in the exception's message.
HandleRequestLeaksInfo(err, user, info) ==
    IF err # JsUndefined /\ err # JsNull
    THEN [thrown |-> TRUE, exc |-> err, value |-> JsUndefined]
    ELSE IF ~Truthy(user)
         THEN [thrown |-> TRUE, exc |-> UnauthorizedException(info), value |-> JsUndefined]
         ELSE [thrown |-> FALSE, exc |-> JsUndefined, value |-> user]

\* Variant of handleRequest: the `!user` test is missing.
HandleRequestSkipsUserCheck(err, user, info) ==
    IF err # JsUndefined /\ err # JsNull
    THEN [thrown |-> TRUE, exc |-> err, value |-> JsUndefined]
    ELSE [thrown |-> FALSE, exc |-> JsUndefined, value |-> user]

\* Variant of handleRequest: an err is answered like a missing user.
HandleRequestMasksError(err, user, info) ==
    IF ~Truthy(user) \/ (err # JsUndefined /\ err # JsNull)
    THEN [thrown |-> TRUE, exc |-> UnauthorizedException("Requires authentication"),
          value |-> JsUndefined]
    ELSE [thrown |-> FALSE, exc |-> JsUndefined, value |-> user]

\* JwtAuthGuard.handleRequest(err, user, _info): what it throws, or what it returns.
handleRequest(err, user, info) ==
    IF err # JsUndefined /\ err # JsNull
    THEN [thrown |-> TRUE, exc |-> err, value |-> JsUndefined]
    ELSE IF ~Truthy(user)
         THEN [thrown |-> TRUE, exc |-> UnauthorizedException("Requires authentication"),
               value |-> JsUndefined]
         ELSE [thrown |-> FALSE, exc |-> JsUndefined, value |-> user]

(***************************************************************************)
(* MessagesController and MessagesService.                                 *)
(***************************************************************************)
Routes == {"public", "protected", "admin", "other"}

\* Variant of Guards: getAdmin without @UseGuards.
GuardsAdminOpen(route) == IF route = "protected" THEN {"JwtAuthGuard"} ELSE {}

\* Variant of Guards: the guard is applied to every route of the controller.
GuardsEveryRoute(route) == {"JwtAuthGuard"}

\* @UseGuards(JwtAuthGuard) on getProtected and getAdmin
Guards(route) == IF route \in {"protected", "admin"} THEN {"JwtAuthGuard"} ELSE {}

\* @Get('public') / @Get('protected') / @Get('admin')
HandlerOf(route) ==
    CASE route = "public" -> "getPublic"
      [] route = "protected" -> "getProtected"
      [] route = "admin" -> "getAdmin"
      [] OTHER -> "none"

getPublicMessage == [text |-> "This is a public message."]

getProtectedMessage == [text |-> "This is a protected message."]

\* Variant of getAdminMessage: the admin handler answers with the protected text.
AdminAnswersProtectedText == [text |-> "This is a protected message."]

getAdminMessage == [text |-> "This is an admin message."]

\* The body a handler returns.
RunHandler(handler) ==
    CASE handler = "getPublic" -> getPublicMessage
      [] handler = "getProtected" -> getProtectedMessage
      [] handler = "getAdmin" -> getAdminMessage

(***************************************************************************)
(* HttpExceptionFilter.                                                    *)
(***************************************************************************)
NOT_FOUND == 404

INTERNAL_SERVER_ERROR == 500

\* Variant of errorMessages: the entry for INTERNAL_SERVER_ERROR is missing.
ErrorMessagesOnlyNotFound == [s \in {NOT_FOUND} |-> "Not Found"]

\* const errorMessages: Record<number, string>
errorMessages ==
    [s \in {NOT_FOUND, INTERNAL_SERVER_ERROR} |->
        IF s = NOT_FOUND THEN "Not Found" ELSE "Internal server error"]

\* Variant of Catches: a bare @Catch().
CatchesEverything(exception) == TRUE

\* @Catch(HttpException)
Catches(exception) == exception.type = "HttpException"

\* Variant of HttpExceptionFilterCatch: the exception's message is always written.
FilterCatchEchoesMessage(exception) ==
    [status |-> exception.status, body |-> [message |-> exception.message]]

\* Variant of HttpExceptionFilterCatch: a replaced message comes with status 500.
FilterCatchReplacesStatus(exception) ==
    IF exception.status \in DOMAIN errorMessages
    THEN [status |-> INTERNAL_SERVER_ERROR,
          body |-> [message |-> errorMessages[exception.status]]]
    ELSE [status |-> exception.status, body |-> [message |-> exception.message]]

\* HttpExceptionFilter.catch: the status and the body written to the response.
HttpExceptionFilterCatch(exception) ==
    LET status == exception.status
        message == IF status \in DOMAIN errorMessages
                   THEN errorMessages[status]
                   ELSE exception.message
    IN  [status |-> status, body |-> [message |-> message]]

\* The framework's answer to an exception no registered filter catches.
DefaultExceptionResponse(exception) ==
    IF exception.type = "HttpException"
    THEN [status |-> exception.status,
          body |-> [statusCode |-> exception.status, message |-> exception.message]]
    ELSE [status |-> INTERNAL_SERVER_ERROR,
          body |-> [statusCode |-> INTERNAL_SERVER_ERROR, message |-> "Internal server error"]]

\* The framework's NotFoundException for a path no controller serves.
NotFoundException == [type |-> "HttpException", status |-> NOT_FOUND, message |-> "Cannot GET"]

(***************************************************************************)
(* State.                                                                  *)
(*   env       the configuration values                                    *)
(*   boot      bootstrap()'s position                                      *)
(*   app       what bootstrap() has installed on the application           *)
(*   strategy  the options JwtStrategy was constructed with                *)
(*   now       the clock, in seconds                                       *)
(*   req       the requests                                                *)
(***************************************************************************)
NoResponse == [status |-> 0, body |-> [none |-> TRUE]]

IdleRequest ==
    [ pc |-> "idle", route |-> "other", auth |-> NoHeader, elsewhere |-> NoCarrier,
      guard |-> "NotRun",
      cb |-> [err |-> JsUndefined, user |-> JsUndefined, info |-> "none"],
      verifiedAt |-> NoExp, user |-> JsUndefined, canActivate |-> FALSE,
      exc |-> JsUndefined, handler |-> "none", filter |-> "none", res |-> NoResponse ]

NewApp ==
    [ globalPrefix |-> "", filters |-> {}, middleware |-> <<>>, cors |-> UNDEFINED,
      port |-> UNDEFINED, error |-> "" ]

Init ==
    /\ env \in [EnvNames -> UNION {EnvValues(n) : n \in EnvNames}]
    /\ \A n \in EnvNames : env[n] \in EnvValues(n)
    /\ boot = "start"
    /\ app = NewApp
    /\ strategy = NotConstructed
    /\ now = 0
    /\ req = [r \in Reqs |-> IdleRequest]

\* Variant of Missing: the empty string counts as a value.
MissingOnlyUndefined(value) == value = UNDEFINED

(***************************************************************************)
(* main.ts                                                                 *)
(***************************************************************************)
\* The value is missing: value === undefined || value === ''
Missing(value) == value = UNDEFINED \/ value = <<>>

\* Variant of checkEnvironment: PORT alone is examined.
CheckEnvironmentPortOnly == IF Missing(ConfigGet("PORT")) THEN "PORT" ELSE ""

\* Variant of checkEnvironment: the Error names the last missing variable.
CheckEnvironmentNamesLast ==
    LET missing == {i \in 1..Len(requiredEnvVars) : Missing(ConfigGet(requiredEnvVars[i]))}
    IN  IF missing = {}
        THEN ""
        ELSE requiredEnvVars[CHOOSE i \in missing : \A j \in missing : i >= j]

\* checkEnvironment: the variable its Error names, or "" when it returns.
checkEnvironment ==
    LET missing == {i \in 1..Len(requiredEnvVars) : Missing(ConfigGet(requiredEnvVars[i]))}
    IN  IF missing = {}
        THEN ""
        ELSE requiredEnvVars[CHOOSE i \in missing : \A j \in missing : i <= j]

\* const app = await NestFactory.create(AppModule): AuthModule's provider
\* JwtStrategy is constructed.
NestFactoryCreate ==
    /\ boot = "start"
    /\ boot' = "created"
    /\ strategy' = StrategyOptions
    /\ UNCHANGED <<env, app, now, req>>

\* checkEnvironment(configService): bootstrap() ends here when it throws.
CheckEnvironment ==
    /\ boot = "created"
    /\ IF checkEnvironment = ""
       THEN boot' = "checked" /\ app' = app
       ELSE boot' = "crashed" /\ app' = [app EXCEPT !.error = checkEnvironment]
    /\ UNCHANGED <<env, strategy, now, req>>

\* app.setGlobalPrefix('api')
SetGlobalPrefix ==
    /\ boot = "checked"
    /\ boot' = "prefixed"
    /\ app' = [app EXCEPT !.globalPrefix = "api"]
    /\ UNCHANGED <<env, strategy, now, req>>

\* app.useGlobalFilters(new HttpExceptionFilter())
UseGlobalFilters ==
    /\ boot = "prefixed"
    /\ boot' = "filtered"
    /\ app' = [app EXCEPT !.filters = @ \cup {"HttpExceptionFilter"}]
    /\ UNCHANGED <<env, strategy, now, req>>

\* app.use(nocache())
UseNocache ==
    /\ boot = "filtered"
    /\ boot' = "nocache"
    /\ app' = [app EXCEPT !.middleware = Append(@, "nocache")]
    /\ UNCHANGED <<env, strategy, now, req>>

\* app.enableCors({ origin: configService.get('CLIENT_ORIGIN_URL'), ... })
EnableCors ==
    /\ boot = "nocache"
    /\ boot' = "cors"
    /\ app' = [app EXCEPT !.cors = ConfigGet("CLIENT_ORIGIN_URL")]
    /\ UNCHANGED <<env, strategy, now, req>>

\* app.use(helmet({...}))
UseHelmet ==
    /\ boot = "cors"
    /\ boot' = "helmet"
    /\ app' = [app EXCEPT !.middleware = Append(@, "helmet")]
    /\ UNCHANGED <<env, strategy, now, req>>

\* Variant of Listen: app.listen is called right after checkEnvironment.
ListenBeforeSetup ==
    /\ boot = "checked"
    /\ boot' = "listening"
    /\ app' = [app EXCEPT !.port = Coalesce(ConfigGet("PORT"), <<"6", "0", "6", "0">>)]
    /\ UNCHANGED <<env, strategy, now, req>>

\* const port = configService.get('PORT') ?? 6060; await app.listen(port)
Listen ==
    /\ boot = "helmet"
    /\ boot' = "listening"
    /\ app' = [app EXCEPT !.port = Coalesce(ConfigGet("PORT"), <<"6", "0", "6", "0">>)]
    /\ UNCHANGED <<env, strategy, now, req>>

Bootstrap ==
    \/ NestFactoryCreate
    \/ CheckEnvironment
    \/ SetGlobalPrefix
    \/ UseGlobalFilters
    \/ UseNocache
    \/ EnableCors
    \/ UseHelmet
    \/ Listen

\* A second passes.
Tick ==
    /\ now < MaxTime
    /\ now' = now + 1
    /\ UNCHANGED <<env, boot, app, strategy, req>>

(***************************************************************************)
(* A request's life: routing, the guard, the handler, the exception filter. *)
(***************************************************************************)
\* GET /api/messages/<route> arrives with an Authorization header drawn from
\* headers and a token elsewhere drawn from carriers, and is routed: to the route's guard, to its handler, or to a
\* NotFoundException.
Arrive(r, headers, carriers) ==
    /\ boot = "listening"
    /\ req[r].pc = "idle"
    /\ \E route \in Routes, hdr \in headers, carrier \in carriers :
          req' = [req EXCEPT ![r] =
                    IF HandlerOf(route) = "none"
                    THEN [@ EXCEPT !.pc = "failed", !.route = route, !.auth = hdr,
                                   !.elsewhere = carrier, !.exc = NotFoundException]
                    ELSE [@ EXCEPT !.pc = IF Guards(route) # {} THEN "guard" ELSE "handler",
                                   !.route = route, !.auth = hdr,
                                   !.elsewhere = carrier]]
    /\ UNCHANGED <<env, boot, app, strategy, now>>

\* JwtAuthGuard.canActivate: super.canActivate(context) starts the strategy and
\* awaits its callback.
CanActivate(r) ==
    /\ req[r].pc = "guard"
    /\ req' = [req EXCEPT ![r].pc = "pending", ![r].guard = "Pending"]
    /\ UNCHANGED <<env, boot, app, strategy, now>>

\* Variant of FinishGuard: a failed authentication is tried again.
FinishGuardRetries(r, cb) ==
    LET h == handleRequest(cb.err, cb.user, cb.info)
    IN  /\ req[r].pc = "pending"
        /\ req' = [req EXCEPT ![r] =
                     IF h.thrown
                     THEN [@ EXCEPT !.pc = "guard", !.guard = "NotRun"]
                     ELSE [@ EXCEPT !.pc = "handler", !.guard = "Authorized", !.cb = cb,
                                    !.verifiedAt = now, !.user = h.value,
                                    !.canActivate = TRUE]]
        /\ UNCHANGED <<env, boot, app, strategy, now>>

\* Variant of FinishGuard: the admin route is granted to the subject u2 alone.
FinishGuardAdminBySubject(r, cb) ==
    LET h == handleRequest(cb.err, cb.user, cb.info)
        denied == /\ ~h.thrown
                  /\ req[r].route = "admin"
                  /\ h.value.val.sub # "u2"
    IN  /\ req[r].pc = "pending"
        /\ req' = [req EXCEPT ![r] =
                     IF h.thrown \/ denied
                     THEN [@ EXCEPT !.pc = "failed", !.guard = "Rejected", !.cb = cb,
                                    !.verifiedAt = now,
                                    !.exc = IF h.thrown THEN h.exc
                                            ELSE UnauthorizedException("Requires authentication")]
                     ELSE [@ EXCEPT !.pc = "handler", !.guard = "Authorized", !.cb = cb,
                                    !.verifiedAt = now, !.user = h.value,
                                    !.canActivate = TRUE]]
        /\ UNCHANGED <<env, boot, app, strategy, now>>

\* Variant of FinishGuard: the user is attached to every request that is pending.
FinishGuardSharedUser(r, cb) ==
    LET h == handleRequest(cb.err, cb.user, cb.info)
    IN  /\ req[r].pc = "pending"
        /\ req' = [q \in Reqs |->
                     IF q = r
                     THEN IF h.thrown
                          THEN [req[q] EXCEPT !.pc = "failed", !.guard = "Rejected", !.cb = cb,
                                              !.verifiedAt = now, !.exc = h.exc]
                          ELSE [req[q] EXCEPT !.pc = "handler", !.guard = "Authorized",
                                              !.cb = cb, !.verifiedAt = now,
                                              !.user = h.value, !.canActivate = TRUE]
                     ELSE IF req[q].pc = "pending" /\ ~h.thrown
                          THEN [req[q] EXCEPT !.user = h.value]
                          ELSE req[q]]
        /\ UNCHANGED <<env, boot, app, strategy, now>>

\* The awaited callback arrives with arguments cb: handleRequest decides, and
\* canActivate either attaches the user and resolves to true, or rejects.
FinishGuard(r, cb) ==
    LET h == handleRequest(cb.err, cb.user, cb.info)
    IN  /\ req[r].pc = "pending"
        /\ req' = [req EXCEPT ![r] =
                     IF h.thrown
                     THEN [@ EXCEPT !.pc = "failed", !.guard = "Rejected", !.cb = cb,
                                    !.verifiedAt = now, !.exc = h.exc]
                     ELSE [@ EXCEPT !.pc = "handler", !.guard = "Authorized", !.cb = cb,
                                    !.verifiedAt = now, !.user = h.value,
                                    !.canActivate = TRUE]]
        /\ UNCHANGED <<env, boot, app, strategy, now>>

\* The strategy finishes the request's verification and calls back.
GuardResume(r) == FinishGuard(r, Authenticate(req[r], strategy, now))

\* The arguments a Passport strategy may hand to the callback.
CallbackErrs ==
    {JsNull, JsUndefined}
    \cup [type : {"Error"}, message : {"boom", "Requires authentication"}]
    \cup [type : {"HttpException"}, status : {400, 401, 403, NOT_FOUND, INTERNAL_SERVER_ERROR, 503},
          message : {"boom", "Requires authentication"}]

CallbackUsers ==
    {JsNull, JsUndefined, JsFalse}
    \cup {JsObject(IssuedToken(s, NoExp).payload) : s \in {"u1", "u2"}}

\* The guard driven with a stubbed strategy: any callback arguments.
StubCallback(r) ==
    \E err \in CallbackErrs, user \in CallbackUsers :
        FinishGuard(r, [err |-> err, user |-> user, info |-> "stub"])

\* The route's handler runs and its result is sent with status 200.
Handler(r) ==
    /\ req[r].pc = "handler"
    /\ req' = [req EXCEPT ![r].pc = "done", ![r].handler = HandlerOf(req[r].route),
                          ![r].res = [status |-> 200, body |-> RunHandler(HandlerOf(req[r].route))]]
    /\ UNCHANGED <<env, boot, app, strategy, now>>

\* The exception thrown for the request reaches the exception filters.
ExceptionFilter(r) ==
    /\ req[r].pc = "failed"
    /\ req' = [req EXCEPT ![r] =
                 IF "HttpExceptionFilter" \in app.filters /\ Catches(req[r].exc)
                 THEN [@ EXCEPT !.pc = "done", !.filter = "HttpExceptionFilter",
                                !.res = HttpExceptionFilterCatch(req[r].exc)]
                 ELSE [@ EXCEPT !.pc = "done", !.filter = "default",
                                !.res = DefaultExceptionResponse(req[r].exc)]]
    /\ UNCHANGED <<env, boot, app, strategy, now>>

(***************************************************************************)
(* Specifications.                                                         *)
(***************************************************************************)
\* The server and MaxReq concurrent requests carrying the core tokens.
Next ==
    \/ Bootstrap
    \/ Tick
    \/ \E r \in Reqs :
          \/ Arrive(r, CoreHeaders, NoCarriers)
          \/ CanActivate(r)
          \/ GuardResume(r)
          \/ Handler(r)
          \/ ExceptionFilter(r)

Spec == Init /\ [][Next]_vars

\* The server and one request carrying any token.
NextTokens ==
    \/ Bootstrap
    \/ Tick
    \/ Arrive(1, AnyHeaders, NoCarriers)
    \/ CanActivate(1)
    \/ GuardResume(1)
    \/ Handler(1)
    \/ ExceptionFilter(1)

SpecTokens == Init /\ [][NextTokens]_vars

\* The server and one request whose guard is driven by a stubbed strategy.
NextGuard ==
    \/ Bootstrap
    \/ Tick
    \/ Arrive(1, CoreHeaders, NoCarriers)
    \/ CanActivate(1)
    \/ StubCallback(1)
    \/ Handler(1)
    \/ ExceptionFilter(1)

SpecGuard == Init /\ [][NextGuard]_vars

\* The server and one request that may carry a token outside its header.
NextCarriers ==
    \/ Bootstrap
    \/ Tick
    \/ Arrive(1, CarrierHeaders, AllCarriers)
    \/ CanActivate(1)
    \/ GuardResume(1)
    \/ Handler(1)
    \/ ExceptionFilter(1)

SpecCarriers == Init /\ [][NextCarriers]_vars

\* The server starting up, for every issuer base URL of ConfiguredUrls.
InitUrls ==
    /\ \E port \in EnvValues("PORT"), url \in ConfiguredUrls,
          aud \in EnvValues("AUTH0_AUDIENCE"), origin \in EnvValues("CLIENT_ORIGIN_URL") :
          env = [n \in EnvNames |->
                   CASE n = "PORT" -> port
                     [] n = "AUTH0_ISSUER_BASE_URL" -> url
                     [] n = "AUTH0_AUDIENCE" -> aud
                     [] n = "CLIENT_ORIGIN_URL" -> origin]
    /\ boot = "start"
    /\ app = NewApp
    /\ strategy = NotConstructed
    /\ now = 0
    /\ req = [r \in Reqs |-> IdleRequest]

NextUrls == Bootstrap

SpecUrls == InitUrls /\ [][NextUrls]_vars

(***************************************************************************)
(* Properties.                                                             *)
(***************************************************************************)
\* The guard has decided the request.
Decided(r) == req[r].guard \in {"Authorized", "Rejected"}

\* The request went to a guarded route with a bearer token in its header.
Presented(r) == Guards(req[r].route) # {} /\ req[r].auth.scheme = "Bearer"

\* The response the interface table gives for a failed authentication.
Unauthorized401 == [status |-> 401, body |-> [message |-> "Requires authentication"]]

\* Rejected by the guard and, once answered, answered 401 'Requires authentication'.
Answered401(r) ==
    /\ req[r].guard = "Rejected"
    /\ req[r].handler = "none"
    /\ req[r].pc = "done" => req[r].res = Unauthorized401

\* The token passes every check made before the expiration, audience and issuer checks.
SignedByAuth0(tok) ==
    /\ ~tok.malformed
    /\ tok.kid \in JwksKids
    /\ tok.alg = "RS256"
    /\ tok.signer = <<"priv", tok.kid>>

\* The token's expiration check passes at clock reading t.
Unexpired(tok, t) == tok.payload.exp = NoExp \/ tok.payload.exp > t

\* C1: on /api/messages/protected and /api/messages/admin the handler runs, and
\* the protected or admin payload is sent, only for a request whose own guard
\* invocation has returned success; a request whose guard has rejected it or has
\* not finished never reaches its handler.
C1_HandlerOnlyAfterGuard ==
    \A r \in Reqs :
        /\ (req[r].route \in {"protected", "admin"}
              /\ (req[r].pc = "handler" \/ req[r].handler # "none"))
           => (req[r].guard = "Authorized" /\ req[r].canActivate)
        /\ req[r].res.body \in {getProtectedMessage, getAdminMessage}
           => (req[r].guard = "Authorized" /\ req[r].canActivate)
        /\ (req[r].route \in {"protected", "admin"} /\ req[r].guard # "Authorized")
           => (req[r].handler = "none" /\ req[r].pc # "handler")

\* C1 witness: one request got the admin payload after its guard succeeded while
\* another, on the same route, was rejected and answered without its handler.
C1_Witness ==
    \E r1, r2 \in Reqs :
        /\ req[r1].route = "admin" /\ req[r1].guard = "Authorized"
        /\ req[r1].handler = "getAdmin" /\ req[r1].res.body = getAdminMessage
        /\ req[r2].route = "admin" /\ req[r2].guard = "Rejected"
        /\ req[r2].pc = "done" /\ req[r2].handler = "none"

\* C2: every authentication failure on a protected route, whatever its reason
\* (no header, wrong scheme, malformed token, unresolved key, bad algorithm or
\* signature, expired, wrong audience, wrong issuer), is answered with status
\* 401 and body exactly {"message":"Requires authentication"}.
C2_UniformFailureResponse ==
    \A r \in Reqs :
        (req[r].guard = "Rejected" /\ req[r].pc = "done")
        => /\ req[r].cb.info \in FailureReasons
           /\ req[r].res = Unauthorized401
           /\ req[r].filter = "HttpExceptionFilter"

\* C2 witness: a request rejected because its token's issuer is wrong has been
\* answered 401.
C2_Witness ==
    \E r \in Reqs :
        /\ req[r].pc = "done" /\ req[r].guard = "Rejected"
        /\ req[r].cb.info = "IssuerMismatch"
        /\ req[r].res = Unauthorized401

\* C3 as stated: a token whose issuer claim differs from the configured
\* AUTH0_ISSUER_BASE_URL is rejected, and a token is accepted only when its
\* issuer claim equals AUTH0_ISSUER_BASE_URL.
C3_IssuerEqualsConfigured ==
    \A r \in Reqs :
        (Presented(r) /\ Decided(r))
        => /\ req[r].auth.token.payload.iss # ConfigGet("AUTH0_ISSUER_BASE_URL")
              => req[r].guard = "Rejected"
           /\ req[r].guard = "Authorized"
              => req[r].auth.token.payload.iss = ConfigGet("AUTH0_ISSUER_BASE_URL")

\* The expected issuer: AUTH0_ISSUER_BASE_URL with '/' appended unless it ends in '/'.
C3_ExpectedIssuer ==
    IF EndsWith(ConfigGet("AUTH0_ISSUER_BASE_URL"), "/")
    THEN ConfigGet("AUTH0_ISSUER_BASE_URL")
    ELSE ConfigGet("AUTH0_ISSUER_BASE_URL") \o <<"/">>

\* C3 (amended): a token whose issuer claim is not exactly equal to the expected
\* issuer - AUTH0_ISSUER_BASE_URL with '/' appended unless it already ends in
\* '/' - fails verification (with IssuerMismatch when every earlier check
\* passes) and is answered 401; a token is accepted only when its issuer claim
\* equals that expected issuer.
C3_IssuerEqualsNormalised ==
    \A r \in Reqs :
        (Presented(r) /\ Decided(r))
        => /\ req[r].auth.token.payload.iss # C3_ExpectedIssuer
              => /\ Answered401(r)
                 /\ ( /\ SignedByAuth0(req[r].auth.token)
                      /\ Unexpired(req[r].auth.token, req[r].verifiedAt)
                      /\ ConfigGet("AUTH0_AUDIENCE") \in req[r].auth.token.payload.aud.vals )
                    => req[r].cb.info = "IssuerMismatch"
           /\ req[r].guard = "Authorized"
              => req[r].auth.token.payload.iss = C3_ExpectedIssuer

\* C3 witness: with AUTH0_ISSUER_BASE_URL = 'h' (no trailing slash) a token with
\* issuer 'h' was rejected with IssuerMismatch and answered 401.
C3_Witness ==
    \E r \in Reqs :
        /\ ConfigGet("AUTH0_ISSUER_BASE_URL") = <<"h">>
        /\ Presented(r) /\ req[r].pc = "done"
        /\ req[r].auth.token.payload.iss = <<"h">>
        /\ req[r].cb.info = "IssuerMismatch"
        /\ req[r].res = Unauthorized401

\* C4: a token whose expiration is less than or equal to the clock at verification
\* (exp = now included) is rejected with 401 {"message":"Requires authentication"}
\* on /api/messages/protected and on /api/messages/admin alike: the expiration
\* check is never skipped for a token that carries the claim.
C4_ExpiredRejected ==
    \A r \in Reqs :
        ( /\ Presented(r) /\ Decided(r)
          /\ req[r].auth.token.payload.exp # NoExp
          /\ req[r].auth.token.payload.exp <= req[r].verifiedAt )
        => /\ Answered401(r)
           /\ ~strategy.ignoreExpiration
           /\ SignedByAuth0(req[r].auth.token) => req[r].cb.info = "TokenExpired"

\* C4 witness: on /api/messages/admin a token otherwise in order, verified in the
\* very second it expires (after the clock has advanced), was answered 401.
C4_Witness ==
    \E r \in Reqs :
        /\ req[r].route = "admin" /\ req[r].pc = "done"
        /\ req[r].auth.scheme = "Bearer"
        /\ req[r].auth.token.payload.exp = req[r].verifiedAt
        /\ req[r].verifiedAt > 0
        /\ req[r].cb.info = "TokenExpired"
        /\ req[r].res = Unauthorized401

C6_OnlyRS256 ==
    \A r \in Reqs :
        /\ req[r].guard = "Authorized"
           => (req[r].auth.scheme = "Bearer" /\ req[r].auth.token.alg = "RS256")
        /\ (Presented(r) /\ Decided(r) /\ req[r].auth.token.alg # "RS256")
           => Answered401(r)

\* C6 witness: an HS256 token keyed with the published public key, with a known
\* kid and claims that would all pass, was rejected and answered 401.
C6_Witness ==
    \E r \in Reqs :
        /\ Presented(r) /\ req[r].pc = "done"
        /\ req[r].auth.token.alg = "HS256"
        /\ req[r].auth.token.kid \in JwksKids
        /\ req[r].auth.token.signer = <<"pub", req[r].auth.token.kid>>
        /\ Unexpired(req[r].auth.token, req[r].verifiedAt)
        /\ strategy.audience \in req[r].auth.token.payload.aud.vals
        /\ req[r].auth.token.payload.iss = strategy.issuer
        /\ req[r].res = Unauthorized401

\* C7: a well-formed token whose kid the key resolver does not know yields
\* KeyResolutionFailed; the request is answered with status 401 and message
\* exactly "Requires authentication", and its handler is not run.
C7_UnknownKidRejected ==
    \A r \in Reqs :
        ( /\ Presented(r) /\ Decided(r)
          /\ ~req[r].auth.token.malformed
          /\ req[r].auth.token.kid \notin JwksKids )
        => /\ req[r].cb.info = "KeyResolutionFailed"
           /\ Answered401(r)

\* C7 witness: an RS256 token with unknown kid and otherwise passing claims was
\* answered 401 without its handler running.
C7_Witness ==
    \E r \in Reqs :
        /\ Presented(r) /\ req[r].pc = "done"
        /\ req[r].auth.token.kid \notin JwksKids
        /\ req[r].auth.token.alg = "RS256"
        /\ req[r].auth.token.payload.iss = strategy.issuer
        /\ req[r].cb.info = "KeyResolutionFailed"
        /\ req[r].handler = "none"
        /\ req[r].res.status = 401
        /\ req[r].res.body.message = "Requires authentication"

\* C8: when every check passes, what is attached to the request is the decoded
\* payload itself: validate returns its argument, handleRequest(null, u, _)
\* returns u, so request.user equals the token's claim set field for field, and
\* canActivate then resolves to true.
C8_PayloadAttachedUnchanged ==
    \A r \in Reqs :
        /\ req[r].guard = "Authorized"
           => /\ req[r].cb.err = JsNull
              /\ req[r].cb.user = JsObject(req[r].auth.token.payload)
              /\ req[r].user = req[r].cb.user
              /\ req[r].canActivate
        /\ req[r].guard # "Authorized"
           => (req[r].user = JsUndefined /\ ~req[r].canActivate)

\* C8 witness: a request was authorized with a payload carrying a list of
\* audiences and an expiration, and that payload is attached.
C8_Witness ==
    \E r \in Reqs :
        /\ req[r].guard = "Authorized"
        /\ req[r].auth.token.payload.aud.isArray
        /\ req[r].auth.token.payload.exp # NoExp
        /\ req[r].user = JsObject(req[r].auth.token.payload)
        /\ req[r].canActivate

C10_EveryFailureUniform ==
    \A r \in Reqs :
        (req[r].pc = "done" /\ req[r].exc # JsUndefined)
        => /\ req[r].filter = "HttpExceptionFilter"
           /\ DOMAIN req[r].res.body = {"message"}
           /\ req[r].exc.type = "HttpException" => req[r].res.status = req[r].exc.status

\* The request failed with an HttpException that HttpExceptionFilter.catch answered.
Caught(r) ==
    /\ req[r].pc = "done"
    /\ req[r].exc.type = "HttpException"
    /\ req[r].filter = "HttpExceptionFilter"

\* C11: for an exception with status 404 and any message text the body written is
\* exactly {"message":"Not Found"}, and with status 500 exactly
\* {"message":"Internal server error"}: the exception's own text is not written.
C11_CanonicalMessages ==
    \A r \in Reqs :
        Caught(r)
        => /\ req[r].exc.status = 404 => req[r].res.body = [message |-> "Not Found"]
           /\ req[r].exc.status = 500
              => req[r].res.body = [message |-> "Internal server error"]

\* C11 witness: an exception with status 500 and the text 'boom' was answered
\* with the canonical text.
C11_Witness ==
    \E r \in Reqs :
        /\ Caught(r)
        /\ req[r].exc.status = 500 /\ req[r].exc.message = "boom"
        /\ req[r].res.body = [message |-> "Internal server error"]

\* C12: for an exception whose status is neither 404 nor 500 the exception's own
\* message is written verbatim (401 'Requires authentication' included), and for
\* every exception, 404 and 500 included, the status written is the exception's.
C12_MessagePassThroughStatusKept ==
    \A r \in Reqs :
        Caught(r)
        => /\ req[r].res.status = req[r].exc.status
           /\ req[r].exc.status \notin {404, 500}
              => req[r].res.body = [message |-> req[r].exc.message]

\* C12 witness: a 403 exception with text 'boom' was answered 403 {"message":"boom"}.
C12_Witness ==
    \E r \in Reqs :
        /\ Caught(r)
        /\ req[r].exc.status = 403 /\ req[r].exc.message = "boom"
        /\ req[r].res = [status |-> 403, body |-> [message |-> "boom"]]

\* C13 as stated: for every exception with a status in the 5xx range the message
\* written is the fixed canonical text, never the exception's own.
C13_All5xxCanonical ==
    \A r \in Reqs :
        (Caught(r) /\ req[r].exc.status \in 500..599)
        => req[r].res.body.message = "Internal server error"

\* C13 (amended): for every exception whose status is exactly 500 the message
\* written is the fixed text 'Internal server error' and not the exception's own;
\* an exception with any other 5xx status (501, 503, ...) has its own message
\* written.
C13_Only500Canonical ==
    \A r \in Reqs :
        Caught(r)
        => /\ req[r].exc.status = 500
              => /\ req[r].res.body.message = "Internal server error"
                 /\ req[r].exc.message # "Internal server error"
                    => req[r].res.body.message # req[r].exc.message
           /\ req[r].exc.status \in 501..599
              => req[r].res.body.message = req[r].exc.message

\* C13 witness: a 503 exception with text 'boom' was answered with 'boom'.
C13_Witness ==
    \E r \in Reqs :
        /\ Caught(r)
        /\ req[r].exc.status = 503 /\ req[r].exc.message = "boom"
        /\ req[r].res.body.message = "boom"

\* C14: a request for the public route never enters the guard and never starts
\* the strategy, whatever its Authorization header; once answered it has status
\* 200 and the body {"text":"This is a public message."}, hence never 401.
C14_PublicNeverGuarded ==
    \A r \in Reqs :
        (req[r].pc # "idle" /\ req[r].route = "public")
        => /\ req[r].guard = "NotRun"
           /\ req[r].cb.info = "none"
           /\ req[r].exc = JsUndefined
           /\ req[r].pc \in {"handler", "done"}
           /\ req[r].pc = "done"
              => req[r].res = [status |-> 200,
                               body |-> [text |-> "This is a public message."]]

\* C14 witness: a public request carrying a malformed bearer token was answered 200.
C14_Witness ==
    \E r \in Reqs :
        /\ req[r].route = "public" /\ req[r].pc = "done"
        /\ req[r].auth.scheme = "Bearer" /\ req[r].auth.token = MalformedToken
        /\ req[r].res.status = 200

\* The routes that have a handler.
HandledRoutes == {"admin", "protected", "public"}

\* The payload the interface table gives for each route.
PayloadOf(route) ==
    CASE route = "public" -> [text |-> "This is a public message."]
      [] route = "protected" -> [text |-> "This is a protected message."]
      [] route = "admin" -> [text |-> "This is an admin message."]

\* C15: every run of a handler returns the fixed payload of its route, the same
\* on every call; the three payloads are pairwise distinct; and the run changes
\* nothing but the request it answers, so no later call can observe it.
C15_HandlersPure ==
    [][\A r \in Reqs :
          (req[r].pc = "handler" /\ req'[r].pc = "done")
          => /\ req'[r].res = [status |-> 200, body |-> PayloadOf(req[r].route)]
             /\ \A a, b \in HandledRoutes :
                   a # b => PayloadOf(a) # PayloadOf(b)
             /\ \A q \in Reqs \ {r} : req'[q] = req[q]
             /\ UNCHANGED <<env, boot, app, strategy, now>>]_vars

\* C15 witness: the admin handler and the public handler have both answered,
\* each with its own payload.
C15_Witness ==
    \E r, q \in Reqs :
        /\ req[r].pc = "done" /\ req[r].handler = "getAdmin"
        /\ req[q].pc = "done" /\ req[q].handler = "getPublic"
        /\ req[r].res.body # req[q].res.body

\* The four required variables.
C16_Required == {"AUTH0_AUDIENCE", "AUTH0_ISSUER_BASE_URL", "CLIENT_ORIGIN_URL", "PORT"}

\* C16: while any of the four required variables is undefined or the empty
\* string, bootstrap gets no further than the failed check and never listens;
\* in every listening state all four are defined and non-empty.
C16_FailFast ==
    LET missing == {n \in C16_Required : env[n] = UNDEFINED \/ env[n] = <<>>}
    IN  /\ missing # {} => /\ boot \in {"start", "created", "crashed"}
                           /\ app.port = UNDEFINED
        /\ boot = "listening" => missing = {}
        /\ boot = "crashed" => missing # {}

\* C16 witness: bootstrap raised on a variable set to the empty string while
\* the other three were set.
C16_Witness ==
    /\ boot = "crashed"
    /\ env["CLIENT_ORIGIN_URL"] = <<>>
    /\ \A n \in EnvNames \ {"CLIENT_ORIGIN_URL"} : env[n] # UNDEFINED /\ env[n] # <<>>

\* C17: the guard of a request leaves Pending only for Authorized or Rejected,
\* enters Pending only from not having run, never leaves Authorized or Rejected,
\* and while it is Pending the request has no user, no handler and no response.
C17_GuardStateMachine ==
    [][\A r \in Reqs :
          /\ req[r].guard = "Pending"
             => req'[r].guard \in {"Pending", "Authorized", "Rejected"}
          /\ req[r].guard \in {"Authorized", "Rejected"} => req'[r].guard = req[r].guard
          /\ req[r].guard = "NotRun" => req'[r].guard \in {"NotRun", "Pending"}
          /\ req'[r].guard = "Pending"
             => /\ req'[r].pc = "pending"
                /\ req'[r].user = JsUndefined
                /\ req'[r].handler = "none"
                /\ req'[r].res = NoResponse]_vars

\* C17 witness: one request was authorized and another rejected.
C17_Witness ==
    \E r, q \in Reqs :
        /\ req[r].guard = "Authorized" /\ req[r].canActivate
        /\ req[q].guard = "Rejected" /\ ~req[q].canActivate

\* C18: a request for a guarded route without a bearer Authorization header is
\* rejected as carrying no token and answered 401 'Requires authentication',
\* whatever token its cookie, query parameter or body holds; a request is
\* authorized only with a bearer header, and then as the header's subject.
C18_TokenFromHeaderOnly ==
    \A r \in Reqs :
        (Guards(req[r].route) # {} /\ Decided(r))
        => /\ req[r].auth.scheme # "Bearer"
              => /\ req[r].guard = "Rejected"
                 /\ req[r].cb.info = "NoAuthToken"
                 /\ req[r].handler = "none"
                 /\ req[r].pc = "done" => req[r].res = Unauthorized401
           /\ req[r].guard = "Authorized"
              => /\ req[r].auth.scheme = "Bearer"
                 /\ req[r].user.val.sub = req[r].auth.token.payload.sub

\* C18 witness: a request without a header, whose query parameter holds a token
\* that verifies under the strategy's options, was answered 401.
C18_Witness ==
    \E r \in Reqs :
        /\ req[r].route = "protected" /\ req[r].pc = "done"
        /\ req[r].auth = NoHeader
        /\ req[r].elsewhere.place = "query"
        /\ Verify(req[r].elsewhere.token, strategy, req[r].verifiedAt) = "Verified"
        /\ req[r].res = Unauthorized401

\* The URI ends with exactly one '/' followed by the well-known segment.
ExactlyOneSlash(uri) ==
    /\ Len(uri) >= 2
    /\ uri[Len(uri)] = ".well-known/jwks.json"
    /\ uri[Len(uri) - 1] = "/"
    /\ Len(uri) >= 3 => uri[Len(uri) - 2] # "/"

\* C19 as stated: for every configured issuer base URL the JWKS URI has exactly
\* one '/' before '.well-known/jwks.json' and equals the expected issuer followed
\* by '.well-known/jwks.json'.
C19_OneSlashForEveryUrl ==
    boot # "start"
    => /\ ExactlyOneSlash(strategy.jwksUri)
       /\ strategy.jwksUri = strategy.issuer \o <<".well-known/jwks.json">>

\* The configured issuer base URL, '' when unset.
C19_BaseUrl ==
    IF env["AUTH0_ISSUER_BASE_URL"] = UNDEFINED THEN <<>> ELSE env["AUTH0_ISSUER_BASE_URL"]

\* C19 (amended): for every configured issuer base URL the JWKS URI equals the
\* expected issuer followed by '.well-known/jwks.json'; and for every base URL
\* that ends with at most one '/', the JWKS URI has exactly one '/' before
\* '.well-known/jwks.json'.
C19_OneSlashUnlessDoubled ==
    boot # "start"
    => /\ strategy.jwksUri = strategy.issuer \o <<".well-known/jwks.json">>
       /\ ~( /\ Len(C19_BaseUrl) >= 2
             /\ C19_BaseUrl[Len(C19_BaseUrl)] = "/"
             /\ C19_BaseUrl[Len(C19_BaseUrl) - 1] = "/" )
          => ExactlyOneSlash(strategy.jwksUri)

\* C19 witness: the strategy was constructed from a base URL with a trailing
\* slash, whose JWKS URI has that one slash.
C19_Witness ==
    /\ boot = "listening"
    /\ env["AUTH0_ISSUER_BASE_URL"] = <<"h", "h", "/">>
    /\ strategy.jwksUri = <<"h", "h", "/", ".well-known/jwks.json">>

\* The request has left the guard of its route, or had none to enter.
PastGuard(r) == req[r].pc \in {"handler", "failed", "done"}

\* C21: a request for the protected route and a request for the admin route
\* both go through the guard; with the same Authorization header verified at
\* the same time the strategy calls back with the same arguments, and with the
\* same callback arguments the guard decides the same: both are authorized as
\* the same user or both are rejected with the same exception.
C21_AdminDecidedAsProtected ==
    \A r, q \in Reqs :
        (/\ req[r].route = "protected" /\ PastGuard(r)
         /\ req[q].route = "admin" /\ PastGuard(q))
        => /\ Decided(r) /\ Decided(q)
           /\ (req[r].auth = req[q].auth /\ req[r].verifiedAt = req[q].verifiedAt)
              => req[r].cb = req[q].cb
           /\ req[r].cb = req[q].cb
              => /\ req[r].guard = req[q].guard
                 /\ req[r].user = req[q].user
                 /\ req[r].exc = req[q].exc

\* C21 witness: the subject u1 was authorized for the protected route and for
\* the admin route with the same token, and both requests were answered 200.
C21_Witness ==
    \E r, q \in Reqs :
        /\ req[r].route = "protected" /\ req[q].route = "admin"
        /\ req[r].auth = req[q].auth
        /\ req[r].auth.scheme = "Bearer" /\ req[r].auth.token.payload.sub = "u1"
        /\ req[r].guard = "Authorized" /\ req[q].guard = "Authorized"
        /\ req[r].pc = "done" /\ req[q].pc = "done"
        /\ req[r].res.status = 200 /\ req[q].res.status = 200

\* C22: every step that changes a request leaves every other request as it
\* was; after it the request has a claim set attached only if its own guard
\* authorized it, and that claim set is the one of its own bearer token; a
\* request its guard rejected has no claim set attached.
C22_ClaimSetsIsolated ==
    [][\A r \in Reqs :
          req'[r] # req[r]
          => /\ \A q \in Reqs \ {r} : req'[q] = req[q]
             /\ req'[r].user # JsUndefined
                => /\ req'[r].guard = "Authorized"
                   /\ req'[r].auth.scheme = "Bearer"
                   /\ req'[r].user = JsObject(req'[r].auth.token.payload)
             /\ req'[r].guard = "Rejected" => req'[r].user = JsUndefined]_vars

\* C22 witness: two requests were verified at the same time, one authorized
\* as u1 and the other as u2, each with its own claim set attached.
C22_Witness ==
    \E r, q \in Reqs :
        /\ req[r].guard = "Authorized" /\ req[q].guard = "Authorized"
        /\ req[r].verifiedAt = req[q].verifiedAt
        /\ req[r].user.val.sub = "u1" /\ req[r].auth.token.payload.sub = "u1"
        /\ req[q].user.val.sub = "u2" /\ req[q].auth.token.payload.sub = "u2"

\* The value is undefined or the empty string.
Unset(value) == value \in {<<"undefined">>, <<>>}

\* C23: the strategy is constructed before checkEnvironment has run, with '/'
\* as expected issuer and '/.well-known/jwks.json' as JWKS URI for a missing
\* AUTH0_ISSUER_BASE_URL and an empty expected audience for a missing
\* AUTH0_AUDIENCE; yet whenever the server listens or a request is in hand,
\* the expected audience is the configured non-empty one and the expected
\* issuer is the configured non-empty URL, ending in '/'.
C23_NoDegenerateVerification ==
    LET base == env["AUTH0_ISSUER_BASE_URL"]
        aud == env["AUTH0_AUDIENCE"]
    IN  /\ boot = "start" => strategy = NotConstructed
        /\ boot # "start"
           => /\ strategy # NotConstructed
              /\ Unset(base)
                 => /\ strategy.issuer = <<"/">>
                    /\ strategy.jwksUri = <<"/", ".well-known/jwks.json">>
              /\ Unset(aud) => strategy.audience = <<>>
        /\ (boot = "listening" \/ \E r \in Reqs : req[r].pc # "idle")
           => /\ boot = "listening"
              /\ ~Unset(aud) /\ strategy.audience = aud
              /\ ~Unset(base)
              /\ strategy.issuer[Len(strategy.issuer)] = "/"
              /\ strategy.issuer \in {base, base \o <<"/">>}

\* C23 witness: with the base URL 'h' configured, a request was verified
\* against the expected issuer 'h/' and the configured audience.
C23_Witness ==
    \E r \in Reqs :
        /\ boot = "listening"
        /\ env["AUTH0_ISSUER_BASE_URL"] = <<"h">>
        /\ strategy.issuer = <<"h", "/">> /\ strategy.audience = <<"a">>
        /\ req[r].guard = "Authorized"

\* The first of the required variables, in the order of the list, that is
\* undefined or the empty string; "" when there is none.
FirstMissing ==
    IF Unset(env["PORT"]) THEN "PORT"
    ELSE IF Unset(env["AUTH0_ISSUER_BASE_URL"]) THEN "AUTH0_ISSUER_BASE_URL"
    ELSE IF Unset(env["AUTH0_AUDIENCE"]) THEN "AUTH0_AUDIENCE"
    ELSE IF Unset(env["CLIENT_ORIGIN_URL"]) THEN "CLIENT_ORIGIN_URL"
    ELSE ""

\* C24: checkEnvironment either raises an error naming the first variable, in
\* the order PORT, AUTH0_ISSUER_BASE_URL, AUTH0_AUDIENCE, CLIENT_ORIGIN_URL,
\* that is undefined or empty, whatever the later ones are, or, when all four
\* are non-empty, returns without an error; it changes no configuration value.
C24_FirstMissingNamed ==
    [][(boot = "created" /\ boot' # "created")
       => /\ env' = env
          /\ FirstMissing # "" => (boot' = "crashed" /\ app'.error = FirstMissing)
          /\ FirstMissing = "" => (boot' = "checked" /\ app' = app)]_vars

\* C24 witness: with PORT set and the three later variables missing, the error
\* raised names AUTH0_ISSUER_BASE_URL.
C24_Witness ==
    /\ boot = "crashed"
    /\ env["PORT"] = <<"6">>
    /\ env["AUTH0_ISSUER_BASE_URL"] = <<>>
    /\ env["AUTH0_AUDIENCE"] = <<"undefined">>
    /\ env["CLIENT_ORIGIN_URL"] = <<>>
    /\ app.error = "AUTH0_ISSUER_BASE_URL"

\* C25: whenever the server listens, and whenever a request is in hand, the
\* prefix 'api', the HttpExceptionFilter, nocache, CORS and helmet have been
\* installed, and the port listened on is the configured PORT, which is
\* defined and non-empty, so that the fallback was not taken.
C25_InstalledBeforeListen ==
    (boot = "listening" \/ \E r \in Reqs : req[r].pc # "idle")
    => /\ boot = "listening"
       /\ app.globalPrefix = "api"
       /\ "HttpExceptionFilter" \in app.filters
       /\ app.middleware = <<"nocache", "helmet">>
       /\ app.cors = env["CLIENT_ORIGIN_URL"]
       /\ ~Unset(env["PORT"])
       /\ app.port = env["PORT"]

\* C25 witness: a request that failed was answered by the HttpExceptionFilter
\* of a server listening on the configured port.
C25_Witness ==
    \E r \in Reqs :
        /\ boot = "listening" /\ app.port = <<"6">>
        /\ req[r].pc = "done" /\ req[r].filter = "HttpExceptionFilter"

====
